---- MODULE Spec2Model ----
(***************************************************************************)
(* slog: serial line logger (src/main.rs).                                 *)
(*                                                                         *)
(* main() either lists the serial ports (Command::List) or opens a port    *)
(* and loops forever: read a chunk, append it to accumulated_data, drain   *)
(* every newline-terminated line, prefix it with generate_timestamp() and  *)
(* write the record to stdout and, when --output is given, to the output   *)
(* file, which is opened for append and dropped again for every line.      *)
(*                                                                         *)
(* Environment assumptions: stderr is always writable (eprintln! never     *)
(* panics); bytes are drawn from a three-letter alphabet; the port, the    *)
(* clock, stdout and the file system answer nondeterministically.          *)
(***************************************************************************)
EXTENDS Integers, Sequences, FiniteSets, TLC

VARIABLES
    command,           \* cli.command: "Read" or "List"
    output,            \* Option<PathBuf>: <<>> is None, <<p>> is Some(p)
    pc,                \* position in main()
    port,              \* result of serialport::new(..).open(): "unopened", "open", "failed"
    exit,              \* "none" (running), "0", "1" (process::exit(1)), "panic" (unwrap failed)
    accumulated_data,  \* Vec<u8> carried across reads
    data,              \* the record of the line being written (timestamp ++ line)
    now,               \* the instant last returned by Local::now(), <<>> before the first sample
    ts,                \* the string last returned by generate_timestamp()
    stdout,            \* one entry per write_all on stdout: the bytes that reached it
    banner,            \* the "Receiving data on ..." println! has happened
    stderr,            \* diagnostics, one entry per eprintln!
    listing,           \* lines println!-ed by list_ports()
    found,             \* Ok(ports) of available_ports(): <<>> before the call or on Err,
                       \* <<types>> on Ok, one transport type per port
    file,              \* bytes stored under the output path, one entry per append
    file_exists,       \* the output path names a file
    handle,            \* result of the last open of the output file: "none" (no File held),
                       \* "open" (File held), "unlinked" (held, but the path was removed),
                       \* "failed" (open returned Err)
    failed_sink,       \* the sink whose write_all/flush returned Err: "none", "stdout", "file"
    appended,          \* history: one entry per write_all on the output file
    received,          \* history: all bytes returned by successful reads
    emitted,           \* history: the lines drained from accumulated_data
    rlog,              \* history: the result of every port.read(): "ok", "timeout", "error"
    reads,             \* history: number of port.read() calls
    samples,           \* history: number of Local::now() calls
    opens,             \* history: number of successful opens of the output file
    closes,            \* history: number of File drops
    removals           \* history: number of external removals of the output file

vars == <<command, output, pc, port, exit, accumulated_data, data, now, ts, stdout, banner,
          stderr, listing, found, file, file_exists, handle, failed_sink, appended, received,
          emitted, rlog, reads, samples, opens, closes, removals>>

(***************************************************************************)
(* Bounds of the model.                                                    *)
(***************************************************************************)
MaxChunk == 2      \* longest chunk one read returns
MaxReads == 4      \* reads issued before the model stops the loop
MaxBytes == 4      \* most bytes the port delivers before it falls silent
MaxPorts == 3      \* most ports available_ports() returns
MaxRemovals == 1   \* external removals of the output file

(***************************************************************************)
(* Program constants.                                                      *)
(***************************************************************************)
NEWLINE == 10        \* b'\n'
SERIAL_BUF_LEN == 1000  \* vec![0; 1000]
YEAR_WIDTH == 4
FIELD_WIDTH == 2
MILLIS_WIDTH == 3

port_path == "/dev/ttyUSB0"
output_path == "out.log"

\* "\x1b[0m" and "\x1b[32m"
RESET == <<27, 91, 48, 109>>
GREEN == <<27, 91, 51, 50, 109>>

Bytes == {NEWLINE, 13, 65}

Min(a, b) == IF a < b THEN a ELSE b

SeqsUpTo(S, n) == UNION {[1..k -> S] : k \in 0..n}

\* what port.read(serial_buf.as_mut_slice()) can store: at most the slice's length
Chunks == SeqsUpTo(Bytes, Min(MaxChunk, SERIAL_BUF_LEN))


(***************************************************************************)
(* generate_timestamp(): format!("{RESET}[{GREEN}{:04}-{:02}-{:02}         *)
(* {:02}:{:02}:{:02}.{:03}{RESET}] ", ...) over the fields of Local::now(). *)
(***************************************************************************)
RECURSIVE Digits(_)
\* the decimal digits of a natural number, as ASCII codes
Digits(n) == IF n < 10 THEN <<48 + n>> ELSE Digits(n \div 10) \o <<48 + (n % 10)>>

\* a mis-formatter that drops the zero flag: {:w} pads with spaces
PadSpaces(n, w) ==
    LET d == Digits(n)
    IN  IF Len(d) >= w THEN d ELSE [i \in 1..(w - Len(d)) |-> 32] \o d

\* {:0w}: w is a minimum width; shorter numbers are filled with '0' on the left,
\* longer ones are printed in full
Pad(n, w) ==
    LET d == Digits(n)
    IN  IF Len(d) >= w THEN d ELSE [i \in 1..(w - Len(d)) |-> 48] \o d

\* DateTime::timestamp_subsec_millis(): nanosecond() / 1_000_000
timestamp_subsec_millis(t) == t.nanosecond \div 1000000

generate_timestamp(t) ==
    RESET \o <<91>> \o GREEN
          \o Pad(t.year, YEAR_WIDTH) \o <<45>> \o Pad(t.month, FIELD_WIDTH) \o <<45>>
          \o Pad(t.day, FIELD_WIDTH) \o <<32>>
          \o Pad(t.hour, FIELD_WIDTH) \o <<58>> \o Pad(t.minute, FIELD_WIDTH) \o <<58>>
          \o Pad(t.second, FIELD_WIDTH) \o <<46>>
          \o Pad(timestamp_subsec_millis(t), MILLIS_WIDTH)
          \o RESET \o <<93, 32>>

\* Instants Local::now() is sampled at when only the formatter is exercised:
\* first and last values of every field, and years on both sides of 9999.
\* Local::now() is built from SystemTime, so nanosecond() < 10^9 (no leap-second value).
Instants ==
    [year : {1970, 2024, 9999, 10000}, month : {1, 12}, day : {1, 31},
     hour : {0, 23}, minute : {0, 59}, second : {0, 59},
     nanosecond : {0, 999999, 1000000, 999999999}]

\* Instants the clock returns, in order, while the read loop is exercised
Clock ==
    <<[year |-> 1999, month |-> 12, day |-> 31, hour |-> 23, minute |-> 59, second |-> 59,
       nanosecond |-> 999999999],
      [year |-> 2024, month |-> 2, day |-> 3, hour |-> 4, minute |-> 5, second |-> 6,
       nanosecond |-> 7000000]>>

\* Local::now() after it last returned `last`: the clock does not run backwards
ClockSamples(last) ==
    {Clock[i] : i \in {j \in 1..Len(Clock) : \A k \in 1..Len(Clock) : Clock[k] = last => k <= j}}

(***************************************************************************)
(* The line reassembler: position(|&x| x == b'\n') and drain(..=pos).      *)
(***************************************************************************)
\* a reassembler that looks for the last newline instead of the first
PositionLast(s) ==
    LET hits == {i \in 1..Len(s) : s[i] = NEWLINE}
    IN  IF hits = {} THEN 0 ELSE CHOOSE i \in hits : \A j \in hits : j <= i

\* iter().position(..): 1-based index of the first newline, 0 for None
Position(s) ==
    LET hits == {i \in 1..Len(s) : s[i] = NEWLINE}
    IN  IF hits = {} THEN 0 ELSE CHOOSE i \in hits : \A j \in hits : i <= j

\* a reassembler whose buffer does not outlive the line it gave
RemainingDropped(s, pos) == <<>>

\* a reassembler that hands out the whole buffer once it holds a newline
DrainedAll(s, pos) == s

\* drain(..=pos): the removed front and what stays in the vector
Drained(s, pos) == SubSeq(s, 1, pos)
Remaining(s, pos) == SubSeq(s, pos + 1, Len(s))

\* how much of a buffer has reached a sink when write_all()/flush() reports an error
Cuts(d) == {0, Len(d) \div 2, Len(d)}

\* a writer that drops the Err of a sink and carries on at `cont`
UnwrapErrIgnored(cont) == [pc |-> cont, exit |-> "none"]

\* Result::unwrap() (and println!) on Err: the thread panics, whatever came next (`cont`)
UnwrapErr(cont) == [pc |-> "done", exit |-> "panic"]

(***************************************************************************)
(* State after Cli::parse(): nothing has been read or written yet.  The    *)
(* output path may or may not name a file left by an earlier run.          *)
(***************************************************************************)
OldFile == <<<<65, NEWLINE>>>>

Init ==
    /\ \/ command = "List" /\ output = <<>> /\ file = <<>> /\ file_exists = FALSE
       \/ command = "Read" /\ output = <<>> /\ file = <<>> /\ file_exists = FALSE
       \/ /\ command = "Read" /\ output = <<output_path>>
          /\ \/ file = <<>> /\ file_exists = FALSE
             \/ file = OldFile /\ file_exists = TRUE
    /\ pc = "main"
    /\ port = "unopened"
    /\ exit = "none"
    /\ accumulated_data = <<>>
    /\ data = <<>>
    /\ now = <<>>
    /\ ts = <<>>
    /\ stdout = <<>>
    /\ banner = FALSE
    /\ stderr = <<>>
    /\ listing = <<>>
    /\ found = <<>>
    /\ handle = "none"
    /\ failed_sink = "none"
    /\ appended = <<>>
    /\ received = <<>>
    /\ emitted = <<>>
    /\ rlog = <<>>
    /\ reads = 0
    /\ samples = 0
    /\ opens = 0
    /\ closes = 0
    /\ removals = 0

loopVars == <<accumulated_data, data, now, ts, stdout, file, file_exists, handle, failed_sink,
              appended, received, emitted, rlog, reads, samples, opens, closes, removals>>

(***************************************************************************)
(* list_ports(), called from the Command::List arm of main().              *)
(***************************************************************************)
\* a header that forgets the singular
HeaderPlural(n) ==
    IF n = 0 THEN "No ports found."
    ELSE "Found " \o ToString(n) \o " ports:"

\* match ports.len() { 0 => .., 1 => .., n => println!("Found {} ports:", n) }
Header(n) ==
    IF n = 0 THEN "No ports found."
    ELSE IF n = 1 THEN "Found 1 port:"
    ELSE "Found " \o ToString(n) \o " ports:"

\* SerialPortType
PortTypes == {"UsbPort", "BluetoothPort", "PciPort", "Unknown"}

\* print_usb_info(): VID/PID and the three optional strings
UsbInfo == <<"    VID:PID", "    Serial Number", "    Manufacturer", "    Product">>

\* the lines of one iteration of `for p in ports`
PortEntry(type) ==
    <<"  port_name">> \o
    (IF type = "UsbPort" THEN <<"    Type: USB">> \o UsbInfo
     ELSE IF type = "BluetoothPort" THEN <<"    Type: Bluetooth">>
     ELSE IF type = "PciPort" THEN <<"    Type: PCI">>
     ELSE <<"    Type: Unknown">>)

RECURSIVE PortEntries(_)
PortEntries(types) ==
    IF types = <<>> THEN <<>> ELSE PortEntry(Head(types)) \o PortEntries(Tail(types))

\* a list path that reports an enumeration failure through the exit status
ListPortsStrict ==
    /\ pc = "main"
    /\ command = "List"
    /\ stderr' = Append(stderr, <<"Error listing serial ports">>)
    /\ exit' = "1"
    /\ pc' = "done"
    /\ UNCHANGED <<listing, found, failed_sink>>
    /\ UNCHANGED <<command, output, port, banner>>
    /\ UNCHANGED <<accumulated_data, data, now, ts, stdout, file, file_exists, handle,
                   appended, received, emitted, rlog, reads, samples, opens, closes, removals>>

ListPorts ==
    /\ pc = "main"
    /\ command = "List"
    /\ \/ \E types \in SeqsUpTo(PortTypes, MaxPorts) :
            LET lines == <<Header(Len(types))>> \o PortEntries(types)
            IN  /\ found' = <<types>>
                /\ \/ /\ listing' = lines
                      /\ exit' = "0"
                      /\ UNCHANGED <<stderr, failed_sink>>
                   \/ \* a println! whose write fails panics
                      /\ \E k \in 0..(Len(lines) - 1) : listing' = SubSeq(lines, 1, k)
                      /\ exit' = UnwrapErr("done").exit
                      /\ failed_sink' = "stdout"
                      /\ stderr' = stderr
       \/ \* available_ports() returned Err
          /\ stderr' = Append(stderr, <<"Error listing serial ports">>)
          /\ exit' = "0"
          /\ UNCHANGED <<listing, found, failed_sink>>
    /\ pc' = "done"
    /\ UNCHANGED <<command, output, port, banner>>
    /\ UNCHANGED <<accumulated_data, data, now, ts, stdout, file, file_exists, handle,
                   appended, received, emitted, rlog, reads, samples, opens, closes, removals>>

(***************************************************************************)
(* Connecting: serialport::new(..).timeout(..).open() and the match on it. *)
(***************************************************************************)
ConnectOk ==
    /\ pc = "main"
    /\ command = "Read"
    /\ port' = "open"
    /\ \/ banner' = TRUE /\ pc' = "read" /\ exit' = exit /\ failed_sink' = failed_sink
       \/ \* the println! of the banner fails: panic
          /\ banner' = FALSE
          /\ pc' = UnwrapErr("read").pc
          /\ exit' = UnwrapErr("read").exit
          /\ failed_sink' = "stdout"
    /\ UNCHANGED <<command, output, stderr, listing, found>>
    /\ UNCHANGED <<accumulated_data, data, now, ts, stdout, file, file_exists, handle,
                   appended, received, emitted, rlog, reads, samples, opens, closes, removals>>

\* an Err arm that reports the failure and falls into the read loop
ConnectFailContinues ==
    /\ pc = "main"
    /\ command = "Read"
    /\ port' = "failed"
    /\ stderr' = Append(stderr, <<"Failed to open", port_path>>)
    /\ pc' = "read"
    /\ UNCHANGED <<command, output, banner, listing, found, exit>>
    /\ UNCHANGED loopVars

\* Err(e) => { eprintln!("Failed to open ..."); process::exit(1) }
ConnectFail ==
    /\ pc = "main"
    /\ command = "Read"
    /\ port' = "failed"
    /\ stderr' = Append(stderr, <<"Failed to open", port_path>>)
    /\ exit' = "1"
    /\ pc' = "done"
    /\ UNCHANGED <<command, output, banner, listing, found>>
    /\ UNCHANGED loopVars

(***************************************************************************)
(* Streaming: one port.read() and the three arms of the match on it.       *)
(***************************************************************************)
ErrorKinds == {"Other"}

started == <<command, output, port, banner, listing, found>>

\* a loop that takes a read of zero bytes for the end of the stream and returns
ReadOkEofOnZero ==
    /\ pc = "read"
    /\ reads < MaxReads
    /\ \E chunk \in Chunks :
          /\ Len(received) + Len(chunk) <= MaxBytes
          /\ accumulated_data' = accumulated_data \o chunk
          /\ received' = received \o chunk
          /\ pc' = IF chunk = <<>> THEN "done" ELSE "split"
          /\ exit' = IF chunk = <<>> THEN "0" ELSE exit
    /\ rlog' = Append(rlog, "ok")
    /\ reads' = reads + 1
    /\ UNCHANGED started
    /\ UNCHANGED <<data, now, ts, stdout, stderr, file, file_exists, handle, failed_sink,
                   appended, emitted, samples, opens, closes, removals>>

\* Ok(t): accumulated_data.extend_from_slice(&serial_buf[..t])
ReadOk ==
    /\ pc = "read"
    /\ reads < MaxReads
    /\ \E chunk \in Chunks :
          /\ Len(received) + Len(chunk) <= MaxBytes
          /\ accumulated_data' = accumulated_data \o chunk
          /\ received' = received \o chunk
    /\ rlog' = Append(rlog, "ok")
    /\ reads' = reads + 1
    /\ pc' = "split"
    /\ UNCHANGED started
    /\ UNCHANGED <<exit, data, now, ts, stdout, stderr, file, file_exists, handle, failed_sink,
                   appended, emitted, samples, opens, closes, removals>>

\* a loop without the TimedOut arm: the timeout falls through to the eprintln! arm
ReadTimedOutReported ==
    /\ pc = "read"
    /\ reads < MaxReads
    /\ rlog' = Append(rlog, "timeout")
    /\ reads' = reads + 1
    /\ pc' = "read"
    /\ stderr' = Append(stderr, <<"read error", "TimedOut">>)
    /\ UNCHANGED started
    /\ UNCHANGED <<exit, accumulated_data, data, now, ts, stdout, file, file_exists,
                   handle, failed_sink, appended, received, emitted, samples, opens, closes,
                   removals>>

\* Err(ref e) if e.kind() == io::ErrorKind::TimedOut => ()
ReadTimedOut ==
    /\ pc = "read"
    /\ reads < MaxReads
    /\ rlog' = Append(rlog, "timeout")
    /\ reads' = reads + 1
    /\ pc' = "read"
    /\ UNCHANGED started
    /\ UNCHANGED <<exit, accumulated_data, data, now, ts, stdout, stderr, file, file_exists,
                   handle, failed_sink, appended, received, emitted, samples, opens, closes,
                   removals>>

\* a loop that gives up on the first read error
ReadErrFatal ==
    /\ pc = "read"
    /\ reads < MaxReads
    /\ \E k \in ErrorKinds : stderr' = Append(stderr, <<"read error", k>>)
    /\ rlog' = Append(rlog, "error")
    /\ reads' = reads + 1
    /\ pc' = "done"
    /\ exit' = "1"
    /\ UNCHANGED started
    /\ UNCHANGED <<accumulated_data, data, now, ts, stdout, file, file_exists,
                   handle, failed_sink, appended, received, emitted, samples, opens, closes,
                   removals>>

\* Err(e) => eprintln!("{e:?}")
ReadErr ==
    /\ pc = "read"
    /\ reads < MaxReads
    /\ \E k \in ErrorKinds : stderr' = Append(stderr, <<"read error", k>>)
    /\ rlog' = Append(rlog, "error")
    /\ reads' = reads + 1
    /\ pc' = "read"
    /\ UNCHANGED started
    /\ UNCHANGED <<exit, accumulated_data, data, now, ts, stdout, file, file_exists,
                   handle, failed_sink, appended, received, emitted, samples, opens, closes,
                   removals>>

(***************************************************************************)
(* The while-let loop over the complete lines of accumulated_data.         *)
(***************************************************************************)
\* a loop that returns from main() once the buffer holds no complete line
WhileExitReturns ==
    /\ pc = "split"
    /\ Position(accumulated_data) = 0
    /\ pc' = "done"
    /\ exit' = "0"
    /\ UNCHANGED started
    /\ UNCHANGED stderr
    /\ UNCHANGED loopVars

\* position() is None: the while-let ends and the loop reads again
WhileExit ==
    /\ pc = "split"
    /\ Position(accumulated_data) = 0
    /\ pc' = "read"
    /\ UNCHANGED started
    /\ UNCHANGED <<exit, stderr>>
    /\ UNCHANGED loopVars

\* a writer that never gets to the output file
AfterConsoleSkipsFile == "split"

\* an `if let` in place of the `while let`: one line per read when no file is written
AfterConsoleOnce == IF output = <<>> THEN "read" ELSE "open"

\* where the loop goes after stdout took the record
AfterConsole == IF output = <<>> THEN "split" ELSE "open"

\* a record builder that strips carriage returns from the line
RecordNoCR(stamp, line) == stamp \o SelectSeq(line, LAMBDA b : b # 13)

\* data: Vec::with_capacity(..), extend_from_slice(&timestamp), extend_from_slice(&line)
Record(stamp, line) == stamp \o line

\* drain the line, sample the clock, build the record, write_all + flush on stdout
ConsoleWrite ==
    /\ pc = "split"
    /\ Position(accumulated_data) > 0
    /\ LET pos == Position(accumulated_data)
           line == Drained(accumulated_data, pos)
       IN  /\ accumulated_data' = Remaining(accumulated_data, pos)
           /\ emitted' = Append(emitted, line)
           /\ \E t \in ClockSamples(now) :
                 /\ now' = t
                 /\ ts' = generate_timestamp(t)
           /\ samples' = samples + 1
           /\ data' = Record(ts', line)
    /\ \/ /\ stdout' = Append(stdout, data')
          /\ pc' = AfterConsole
          /\ exit' = exit
          /\ failed_sink' = failed_sink
       \/ \* write_all or flush returned Err: unwrap() panics
          /\ \E n \in Cuts(data') : stdout' = Append(stdout, SubSeq(data', 1, n))
          /\ pc' = UnwrapErr(AfterConsole).pc
          /\ exit' = UnwrapErr(AfterConsole).exit
          /\ failed_sink' = "stdout"
    /\ UNCHANGED started
    /\ UNCHANGED <<stderr, file, file_exists, handle, appended, received, rlog, reads,
                   opens, closes, removals>>

\* an open whose Err arm reports the failure and skips the file for this line
FileOpenLenient ==
    /\ pc = "open"
    /\ \/ /\ handle' = "open"
          /\ file_exists' = TRUE
          /\ opens' = opens + 1
          /\ pc' = "write"
          /\ UNCHANGED <<exit, stderr>>
       \/ /\ handle' = "failed"
          /\ stderr' = Append(stderr, <<"Failed to open", output[1]>>)
          /\ pc' = "split"
          /\ UNCHANGED <<exit, file_exists, opens>>
    /\ UNCHANGED started
    /\ UNCHANGED <<accumulated_data, data, now, ts, stdout, file, failed_sink, appended,
                   received, emitted, rlog, reads, samples, closes, removals>>

\* OpenOptions::new().write(true).append(true).create(true).open(file)
FileOpen ==
    /\ pc = "open"
    /\ \/ /\ handle' = "open"
          /\ file_exists' = TRUE
          /\ opens' = opens + 1
          /\ pc' = "write"
          /\ UNCHANGED <<exit, stderr>>
       \/ \* Err(e): eprintln! and process::exit(1)
          /\ handle' = "failed"
          /\ stderr' = Append(stderr, <<"Failed to open", output[1]>>)
          /\ exit' = "1"
          /\ pc' = "done"
          /\ UNCHANGED <<file_exists, opens>>
    /\ UNCHANGED started
    /\ UNCHANGED <<accumulated_data, data, now, ts, stdout, file, failed_sink, appended,
                   received, emitted, rlog, reads, samples, closes, removals>>

\* what the path holds after `bytes` went through the handle
Stored(bytes) == IF handle = "open" THEN Append(file, bytes) ELSE file

\* a writer that sends the bare line, without its timestamp, to the file
FileRecordBare(d) == SubSeq(d, Len(ts) + 1, Len(d))

\* the buffer handed to file.write_all(): &data, the one stdout received
FileRecord(d) == d

\* a writer that keeps its File across lines instead of dropping it
FileWriteKeepsHandle ==
    /\ pc = "write"
    /\ appended' = Append(appended, FileRecord(data))
    /\ file' = Stored(FileRecord(data))
    /\ pc' = "split"
    /\ UNCHANGED started
    /\ UNCHANGED <<exit, failed_sink, handle, closes, accumulated_data, data, now, ts, stdout,
                   stderr, file_exists, received, emitted, rlog, reads, samples, opens, removals>>

\* file.write_all(&data), file.flush(), and the drop of `file` at the end of the block
FileWrite ==
    /\ pc = "write"
    /\ \/ /\ appended' = Append(appended, FileRecord(data))
          /\ file' = Stored(FileRecord(data))
          /\ pc' = "split"
          /\ exit' = exit
          /\ failed_sink' = failed_sink
       \/ \* write_all or flush returned Err: unwrap() panics, unwinding drops the File
          /\ \E n \in Cuts(FileRecord(data)) :
                /\ appended' = Append(appended, SubSeq(FileRecord(data), 1, n))
                /\ file' = Stored(SubSeq(FileRecord(data), 1, n))
          /\ pc' = UnwrapErr("split").pc
          /\ exit' = UnwrapErr("split").exit
          /\ failed_sink' = "file"
    /\ handle' = "none"
    /\ closes' = closes + 1
    /\ UNCHANGED started
    /\ UNCHANGED <<accumulated_data, data, now, ts, stdout, stderr, file_exists, received,
                   emitted, rlog, reads, samples, opens, removals>>

(***************************************************************************)
(* The environment removes (or rotates away) the output file.  Only the    *)
(* next open and a File that is held can tell when it happened, so the     *)
(* removal is placed right before an open or between the open and the      *)
(* write of a line.                                                        *)
(***************************************************************************)
ExternalRemove ==
    /\ pc \in {"open", "write"}
    /\ output # <<>>
    /\ file_exists
    /\ removals < MaxRemovals
    /\ file' = <<>>
    /\ file_exists' = FALSE
    /\ handle' = IF handle = "open" THEN "unlinked" ELSE handle
    /\ removals' = removals + 1
    /\ UNCHANGED started
    /\ UNCHANGED <<pc, exit, accumulated_data, data, now, ts, stdout, stderr, failed_sink,
                   appended, received, emitted, rlog, reads, samples, opens, closes>>

Next ==
    \/ ListPorts
    \/ ConnectOk
    \/ ConnectFail
    \/ ReadOk
    \/ ReadTimedOut
    \/ ReadErr
    \/ WhileExit
    \/ ConsoleWrite
    \/ FileOpen
    \/ FileWrite

Spec == Init /\ [][Next]_vars

\* the read path with an output file left by an earlier run, in an environment that
\* also removes that file
InitEnv == Init /\ command = "Read" /\ output # <<>> /\ file_exists

NextEnv ==
    \/ ConnectOk
    \/ ConnectFail
    \/ ReadOk
    \/ ReadTimedOut
    \/ ReadErr
    \/ WhileExit
    \/ ConsoleWrite
    \/ FileOpen
    \/ FileWrite
    \/ ExternalRemove

SpecEnv == InitEnv /\ [][NextEnv]_vars

(***************************************************************************)
(* The timestamp formatter on its own: the clock shows any of Instants and *)
(* generate_timestamp() formats it.                                        *)
(***************************************************************************)
InitTS ==
    /\ command = "Read" /\ output = <<>> /\ file = <<>> /\ file_exists = FALSE
    /\ pc = "format"
    /\ port = "unopened"
    /\ exit = "none"
    /\ accumulated_data = <<>>
    /\ data = <<>>
    /\ now \in Instants
    /\ ts = <<>>
    /\ stdout = <<>>
    /\ banner = FALSE
    /\ stderr = <<>>
    /\ listing = <<>>
    /\ found = <<>>
    /\ handle = "none"
    /\ failed_sink = "none"
    /\ appended = <<>>
    /\ received = <<>>
    /\ emitted = <<>>
    /\ rlog = <<>>
    /\ reads = 0
    /\ samples = 0
    /\ opens = 0
    /\ closes = 0
    /\ removals = 0

FormatTimestamp ==
    /\ pc = "format"
    /\ ts = <<>>
    /\ ts' = generate_timestamp(now)
    /\ samples' = samples + 1
    /\ UNCHANGED <<command, output, pc, port, exit, accumulated_data, data, now, stdout, banner,
                   stderr, listing, found, file, file_exists, handle, failed_sink, appended, received,
                   emitted, rlog, reads, opens, closes, removals>>

NextTS == FormatTimestamp

SpecTS == InitTS /\ [][NextTS]_vars

(***************************************************************************)
(* Vocabulary of the properties.                                           *)
(***************************************************************************)
IsPrefix(a, b) == Len(a) <= Len(b) /\ SubSeq(b, 1, Len(a)) = a

RECURSIVE Flatten(_)
Flatten(ss) == IF ss = <<>> THEN <<>> ELSE Head(ss) \o Flatten(Tail(ss))

NewlinePositions(s) == {i \in 1..Len(s) : s[i] = NEWLINE}

\* position of the i-th newline of s
NthNewline(s, i) ==
    LET nl == NewlinePositions(s)
    IN  CHOOSE p \in nl : Cardinality({q \in nl : q <= p}) = i

\* the i-th newline-terminated substring of s
NthLine(s, i) == SubSeq(s, IF i = 1 THEN 1 ELSE NthNewline(s, i - 1) + 1, NthNewline(s, i))

ExpectedLines(s) == [i \in 1..Cardinality(NewlinePositions(s)) |-> NthLine(s, i)]

\* the bytes of s that follow its last newline
AfterLastNewline(s) ==
    LET k == Cardinality(NewlinePositions(s))
    IN  IF k = 0 THEN s ELSE SubSeq(s, NthNewline(s, k) + 1, Len(s))

\* the loop has finished the cycle of its last read
CycleDone == pc = "read"

(***************************************************************************)
(* C1: for read chunks whose concatenation holds k newlines the loop emits *)
(* exactly k lines, the i-th being the i-th newline-terminated substring   *)
(* of the concatenation; inside a cycle the lines emitted so far are the   *)
(* first ones of that list.                                                *)
(***************************************************************************)
C1_LinesOfConcatenation ==
    /\ IsPrefix(emitted, ExpectedLines(received))
    /\ CycleDone =>
          /\ Len(emitted) = Cardinality(NewlinePositions(received))
          /\ emitted = ExpectedLines(received)

\* three lines out of four bytes that came in three reads, two lines from one read
C1_Witness ==
    /\ CycleDone
    /\ rlog = <<"ok", "ok", "ok">>
    /\ received = <<65, NEWLINE, NEWLINE, NEWLINE>>
    /\ emitted = <<<<65, NEWLINE>>, <<NEWLINE>>, <<NEWLINE>>>>

(***************************************************************************)
(* C2: emitted lines followed by the accumulation buffer are exactly the   *)
(* bytes read so far, in order; when a cycle is over the buffer holds just *)
(* the bytes behind the last newline read, so a line spread over several   *)
(* reads, with timeouts and read errors in between, comes out once, whole, *)
(* in the cycle of the read that brings its newline.                       *)
(***************************************************************************)
C2_NoByteLost ==
    /\ Flatten(emitted) \o accumulated_data = received
    /\ CycleDone => accumulated_data = AfterLastNewline(received)
    /\ \A i \in 1..Len(emitted) : emitted[i] = NthLine(received, i)

\* "A", a timeout, a read error, then "\r\n": one line "A\r\n"
C2_Witness ==
    /\ rlog = <<"ok", "timeout", "error", "ok">>
    /\ received = <<65, 13, NEWLINE>>
    /\ emitted = <<<<65, 13, NEWLINE>>>>
    /\ Len(stdout) = 1
    /\ accumulated_data = <<>>

(***************************************************************************)
(* C3: with an output file, every record that was written to the file is   *)
(* byte for byte the record stdout received for the same line; only the    *)
(* write that failed (and ended the process) may have stored less.         *)
(***************************************************************************)
C3_FileEqualsConsole ==
    /\ Len(appended) <= Len(stdout)
    /\ output = <<>> => appended = <<>>
    /\ \A i \in 1..Len(appended) :
          IF failed_sink = "file" /\ i = Len(appended)
          THEN IsPrefix(appended[i], stdout[i])
          ELSE appended[i] = stdout[i]

\* two different records went to both sinks
C3_Witness ==
    /\ output # <<>>
    /\ exit = "none"
    /\ Len(appended) = 2
    /\ appended[1] = stdout[1]
    /\ appended[2] = stdout[2]
    /\ appended[1] # appended[2]
    /\ IsPrefix(ts, appended[2])

(***************************************************************************)
(* C4: a read that times out writes nothing to stdout, the output file or  *)
(* stderr, extracts no line, leaves the accumulation buffer as it was, and *)
(* leaves the loop at its next read.                                       *)
(***************************************************************************)
TimedOutStep == rlog' = Append(rlog, "timeout")

C4_TimeoutIsSilent ==
    [][TimedOutStep =>
          /\ pc = "read" /\ pc' = "read"
          /\ exit' = "none"
          /\ reads' = reads + 1
          /\ stdout' = stdout
          /\ stderr' = stderr
          /\ file' = file /\ file_exists' = file_exists /\ appended' = appended
          /\ opens' = opens
          /\ emitted' = emitted
          /\ samples' = samples
          /\ accumulated_data' = accumulated_data]_vars

\* a timeout with a partial line waiting in the buffer, after a record and a diagnostic
C4_Witness ==
    /\ rlog = <<"ok", "error", "timeout">>
    /\ pc = "read"
    /\ accumulated_data = <<65>>
    /\ Len(stdout) = 1
    /\ Len(appended) = 1
    /\ Len(stderr) = 1

(***************************************************************************)
(* C5: when the port cannot be opened the process reports the port path on *)
(* stderr and exits with status 1; it never streams: no read, no banner,   *)
(* no record on stdout, and the output file is neither opened nor created. *)
(***************************************************************************)
C5_PortOpenFailure ==
    port = "failed" =>
        /\ pc = "done"
        /\ exit = "1"
        /\ stderr = <<<<"Failed to open", port_path>>>>
        /\ reads = 0 /\ rlog = <<>>
        /\ ~banner /\ stdout = <<>> /\ emitted = <<>>
        /\ opens = 0 /\ handle = "none" /\ appended = <<>>
        /\ file \in {<<>>, OldFile} /\ file_exists = (file = OldFile)

\* the port failed to open although an output file was asked for
C5_Witness ==
    /\ port = "failed"
    /\ output = <<output_path>>
    /\ exit = "1"
    /\ ~file_exists

Streaming == {"read", "split", "open", "write"}

ReadErrorStep == rlog' = Append(rlog, "error")

C8_ReadErrorNotFatal ==
    [][ReadErrorStep =>
          /\ pc = "read" /\ pc' = "read"
          /\ exit' = "none"
          /\ reads' = reads + 1
          /\ \E k \in ErrorKinds : stderr' = Append(stderr, <<"read error", k>>)
          /\ stdout' = stdout
          /\ file' = file /\ file_exists' = file_exists /\ appended' = appended
          /\ opens' = opens
          /\ emitted' = emitted
          /\ accumulated_data' = accumulated_data]_vars

\* two read errors in a row with a partial line in the buffer, and a read after them
C8_Witness ==
    /\ rlog = <<"ok", "error", "error", "ok">>
    /\ Len(stderr) = 2
    /\ emitted = <<<<65, NEWLINE>>>>
    /\ received = <<65, NEWLINE>>
    /\ exit = "none"

(***************************************************************************)
(* C9: a failed write or flush on stdout or on the output file ends the    *)
(* process by a panic, so nothing is written to either sink afterwards.    *)
(***************************************************************************)
C9_SinkFailureSurfaces ==
    [][/\ failed_sink' # "none" => (exit' = "panic" /\ pc' = "done")
       /\ failed_sink # "none" =>
             /\ stdout' = stdout /\ appended' = appended /\ file' = file
             /\ listing' = listing /\ banner' = banner]_vars

\* stdout failed on the second record while another line waits in the buffer
C9_Witness ==
    /\ failed_sink = "stdout"
    /\ exit = "panic"
    /\ Len(stdout) = 2
    /\ Len(stdout[2]) < Len(stdout[1])
    /\ Position(accumulated_data) > 0

(***************************************************************************)
(* C10 (as stated): the prefix is RESET "[" GREEN YYYY-MM-DD HH:MM:SS.mmm  *)
(* RESET "] " with exactly 4/2/2/2/2/2/3 digits for every instant.         *)
(***************************************************************************)
\* 0 stands for one decimal digit
BodyPattern == <<0, 0, 0, 0, 45, 0, 0, 45, 0, 0, 32, 0, 0, 58, 0, 0, 58, 0, 0, 46, 0, 0, 0>>

MatchesPattern(s) ==
    LET head == RESET \o <<91>> \o GREEN
        tail == RESET \o <<93, 32>>
        n == Len(head)
        m == Len(BodyPattern)
    IN  /\ Len(s) = n + m + Len(tail)
        /\ SubSeq(s, 1, n) = head
        /\ \A i \in 1..m :
              IF BodyPattern[i] = 0 THEN s[n + i] \in 48..57 ELSE s[n + i] = BodyPattern[i]
        /\ SubSeq(s, n + m + 1, Len(s)) = tail

C10_FixedWidthAlways == ts # <<>> => MatchesPattern(ts)

(***************************************************************************)
(* Range of C10: for every instant whose year is at most 9999 the prefix   *)
(* matches the pattern with exactly 4/2/2/2/2/2/3 zero-padded digits, so   *)
(* its width is constant; in year 10000 the prefix is longer.              *)
(***************************************************************************)
C10_FixedWidthUpTo9999 ==
    ts # <<>> =>
        /\ now.year <= 9999 => MatchesPattern(ts)
        /\ now.year > 9999 => Len(ts) > Len(generate_timestamp(Clock[1]))

\* midnight of 1 January, one millisecond in: every field but the year is one digit
C10_Witness ==
    /\ ts # <<>>
    /\ now.year = 9999 /\ now.month = 1 /\ now.day = 1
    /\ now.hour = 0 /\ now.minute = 0 /\ now.second = 0 /\ now.nanosecond = 1000000
    /\ MatchesPattern(ts)
    /\ SubSeq(ts, 11, 33) =
          <<57, 57, 57, 57, 45, 48, 49, 45, 48, 49, 32, 48, 48, 58, 48, 48, 58, 48, 48, 46,
            48, 48, 49>>

(***************************************************************************)
(* C11: when enumeration succeeds with n ports the first line printed is   *)
(* "No ports found." for n = 0, "Found 1 port:" for n = 1 and              *)
(* "Found n ports:" for n >= 2; it is printed once, before every port      *)
(* entry, and one entry follows per port.                                  *)
(***************************************************************************)
DigitNames == <<"0", "1", "2", "3", "4", "5", "6", "7", "8", "9">>

RECURSIVE Decimal(_)
Decimal(n) ==
    IF n < 10 THEN DigitNames[n + 1] ELSE Decimal(n \div 10) \o DigitNames[(n % 10) + 1]

ExpectedHeader(n) ==
    IF n = 0 THEN "No ports found."
    ELSE IF n = 1 THEN "Found 1 port:"
    ELSE "Found " \o Decimal(n) \o " ports:"

HeaderLines == {ExpectedHeader(n) : n \in 0..(MaxPorts + 1)} \cup {"Found 1 ports:", "Found 0 ports:"}

C11_ListHeader ==
    /\ found # <<>> =>
          LET n == Len(found[1])
          IN  /\ exit = "0" => listing # <<>>
              /\ listing # <<>> => listing[1] = ExpectedHeader(n)
              /\ \A i \in 2..Len(listing) : listing[i] \notin HeaderLines
              /\ exit = "0" =>
                    Cardinality({i \in 1..Len(listing) : listing[i] = "  port_name"}) = n
    /\ found = <<>> => listing = <<>>

\* three ports, the header of the specification's example, then the entries
C11_Witness ==
    /\ exit = "0"
    /\ found # <<>>
    /\ Len(found[1]) = 3
    /\ listing[1] = "Found 3 ports:"
    /\ Len(listing) > 3

(***************************************************************************)
(* C12 (as stated): the list path always ends with exit status 0 and never *)
(* opens a port or reads.                                                  *)
(***************************************************************************)
C12_ListAlwaysZero ==
    (command = "List" /\ pc = "done") =>
        /\ exit = "0"
        /\ port = "unopened" /\ reads = 0

(***************************************************************************)
(* C12 (amended): the list path ends with exit status 0, also when port    *)
(* enumeration fails (then only "Error listing serial ports" is reported), *)
(* unless a println! of the listing fails, which ends it by a panic; it    *)
(* never opens a port, reads, or writes a record.                          *)
(***************************************************************************)
C12_ListExit ==
    command = "List" =>
        /\ pc \in {"main", "done"}
        /\ port = "unopened" /\ reads = 0 /\ rlog = <<>>
        /\ ~banner /\ stdout = <<>> /\ opens = 0 /\ appended = <<>>
        /\ pc = "main" => exit = "none"
        /\ pc = "done" =>
              \/ exit = "0" /\ failed_sink = "none"
              \/ exit = "panic" /\ failed_sink = "stdout" /\ found # <<>>
        /\ (pc = "done" /\ found = <<>>) =>
              /\ exit = "0"
              /\ stderr = <<<<"Error listing serial ports">>>>
              /\ listing = <<>>
        /\ found # <<>> => stderr = <<>>

\* enumeration failed and the process still ended with status 0
C12_Witness ==
    /\ command = "List"
    /\ pc = "done"
    /\ found = <<>>
    /\ stderr # <<>>
    /\ exit = "0"

(***************************************************************************)
(* C13: with an output file every line goes through exactly one            *)
(* open(append, create) - write - flush - close cycle, and no File is held *)
(* when a read is issued; the file is appended to, never truncated, and    *)
(* once it was removed from outside the next open creates it again and the *)
(* line is stored in the new file.                                         *)
(***************************************************************************)
IsSuffix(a, b) == Len(a) <= Len(b) /\ SubSeq(b, Len(b) - Len(a) + 1, Len(b)) = a

C13_OpenWriteClose ==
    /\ pc = "read" => handle = "none"
    /\ (handle \in {"open", "unlinked"}) <=> (pc = "write")
    /\ pc \in {"read", "split"} =>
          /\ opens = closes /\ opens = Len(appended) /\ Len(appended) = Len(stdout)
    /\ pc = "open" => (opens = closes /\ Len(stdout) = opens + 1 /\ Len(appended) = opens)
    /\ pc = "write" => (opens = closes + 1 /\ Len(stdout) = opens /\ Len(appended) = closes)
    /\ pc = "done" => (opens = closes /\ Len(appended) = opens)
    /\ removals = 0 => (file_exists /\ file = OldFile \o appended)
    /\ ~file_exists => file = <<>>
    /\ (removals > 0 /\ file_exists) =>
          /\ IsSuffix(file, appended)
          /\ pc \in {"read", "split"} =>
                (file # <<>> /\ file[Len(file)] = stdout[Len(stdout)])

\* the file was removed after the first line; the second line created it again
C13_Witness ==
    /\ pc = "read"
    /\ removals = 1
    /\ file_exists
    /\ opens = 2 /\ closes = 2
    /\ Len(appended) = 2
    /\ file = <<appended[2]>>
    /\ file[1] = stdout[2]

(***************************************************************************)
(* C14: the record of a line is on stdout before the output file is opened *)
(* for it, and the file has the record of line i before stdout gets line   *)
(* i+1; both sinks receive the records in the order of extraction.         *)
(***************************************************************************)
\* record i of a sink was written in full
Complete(sink, name, i) == i < Len(sink) \/ failed_sink # name

C14_ConsoleThenFile ==
    /\ Len(stdout) <= Len(emitted)
    /\ \A i \in 1..Len(stdout) :
          Complete(stdout, "stdout", i) => IsSuffix(emitted[i], stdout[i])
    /\ output # <<>> =>
          /\ Len(appended) <= Len(stdout)
          /\ Len(stdout) <= Len(appended) + 1
          /\ pc \in {"read", "split"} => Len(appended) = Len(stdout)
          /\ pc \in {"open", "write"} =>
                (Len(stdout) = Len(appended) + 1 /\ stdout[Len(stdout)] = data)
          /\ \A i \in 1..Len(appended) :
                Complete(appended, "file", i) => IsSuffix(emitted[i], appended[i])

\* the second line is on stdout and the file, holding the first, is about to be opened
C14_Witness ==
    /\ pc = "open"
    /\ emitted = <<<<65, NEWLINE>>, <<NEWLINE>>>>
    /\ Len(stdout) = 2
    /\ Len(appended) = 1
    /\ appended[1] = stdout[1]
    /\ stdout[2] = data

(***************************************************************************)
(* C15: an emitted line holds exactly one newline, its last byte; the      *)
(* bytes read after the last newline stay in the accumulation buffer and   *)
(* are never emitted.                                                      *)
(***************************************************************************)
C15_OnlyTerminatedLines ==
    /\ \A i \in 1..Len(emitted) :
          /\ emitted[i] # <<>>
          /\ NewlinePositions(emitted[i]) = {Len(emitted[i])}
    /\ LET nl   == NewlinePositions(received)
           last == IF nl = {} THEN 0 ELSE CHOOSE p \in nl : \A q \in nl : q <= p
       IN  /\ IsSuffix(SubSeq(received, last + 1, Len(received)), accumulated_data)
           /\ Len(emitted) <= Cardinality(nl)
           /\ Len(stdout) <= Cardinality(nl)
           /\ \A i \in 1..Len(emitted) : Len(emitted[i]) <= last

\* an undelimited "A" sits in the buffer through two idle reads and is not printed
C15_Witness ==
    /\ pc = "read"
    /\ rlog = <<"ok", "ok", "timeout", "timeout">>
    /\ received = <<65, NEWLINE, 65>>
    /\ emitted = <<<<65, NEWLINE>>>>
    /\ accumulated_data = <<65>>
    /\ Len(stdout) = 1

(***************************************************************************)
(* C16: every record is a timestamp prefix followed by the untouched bytes *)
(* of one extracted line, carriage return included, and the clock is       *)
(* sampled once per extracted line, also for lines of the same read.       *)
(***************************************************************************)
\* the timestamp prefixes of the instants the clock can show
Stamps == {generate_timestamp(Clock[k]) : k \in 1..Len(Clock)}

C16_OneStampPerLine ==
    /\ samples = Len(emitted)
    /\ Len(stdout) = Len(emitted)
    /\ \A i \in 1..Len(stdout) :
          Complete(stdout, "stdout", i) =>
             \E stamp \in Stamps : stdout[i] = stamp \o emitted[i]
    /\ \A i \in 1..Len(appended) :
          Complete(appended, "file", i) =>
             \E stamp \in Stamps : appended[i] = stamp \o emitted[i]

\* "\r" then "\n\n": two lines out of the second read, stamped at different instants
C16_Witness ==
    /\ rlog = <<"ok", "ok">>
    /\ received = <<13, NEWLINE, NEWLINE>>
    /\ samples = 2
    /\ Len(stdout) = 2
    /\ stdout[1] = generate_timestamp(Clock[1]) \o <<13, NEWLINE>>
    /\ stdout[2] = generate_timestamp(Clock[2]) \o <<NEWLINE>>

(***************************************************************************)
(* C17: a successful read of zero bytes yields no line: the accumulation   *)
(* buffer, stdout and the output file stay as they were, the file is not   *)
(* opened, and the loop goes on to its next read.                          *)
(***************************************************************************)
ZeroByteRead == rlog' = Append(rlog, "ok") /\ received' = received

C17_ZeroByteRead ==
    [][/\ ZeroByteRead =>
             /\ accumulated_data' = accumulated_data
             /\ NewlinePositions(accumulated_data') = {}
             /\ stdout' = stdout /\ stderr' = stderr
             /\ file' = file /\ file_exists' = file_exists /\ appended' = appended
             /\ opens' = opens /\ handle' = handle
             /\ emitted' = emitted /\ samples' = samples
             /\ exit' = "none"
             /\ pc' = "split"
       /\ (pc = "split" /\ NewlinePositions(accumulated_data) = {}) =>
             /\ pc' = "read"
             /\ exit' = "none"
             /\ accumulated_data' = accumulated_data
             /\ stdout' = stdout /\ appended' = appended /\ file' = file
             /\ opens' = opens /\ emitted' = emitted]_vars

\* only empty reads so far, with an output file asked for: nothing written, nothing opened
C17_Witness ==
    /\ pc = "read"
    /\ rlog = <<"ok", "ok">>
    /\ received = <<>>
    /\ output # <<>>
    /\ stdout = <<>>
    /\ opens = 0
    /\ ~file_exists

(***************************************************************************)
(* C18: whenever a read is issued the accumulation buffer holds no         *)
(* newline: every line completed by a read has been written to the sinks   *)
(* before the next read.                                                   *)
(***************************************************************************)
C18_NoNewlineAtRead ==
    pc = "read" =>
        /\ NewlinePositions(accumulated_data) = {}
        /\ Len(emitted) = Cardinality(NewlinePositions(received))
        /\ Len(stdout) = Cardinality(NewlinePositions(received))
        /\ output # <<>> => Len(appended) = Cardinality(NewlinePositions(received))

\* one read brought two lines; both are on stdout before the next read
C18_Witness ==
    /\ pc = "read"
    /\ rlog = <<"ok">>
    /\ received = <<NEWLINE, NEWLINE>>
    /\ output = <<>>
    /\ Len(stdout) = 2
    /\ accumulated_data = <<>>

(***************************************************************************)
(* C19: when the open of the output file fails for a line, the record of   *)
(* that line is on stdout and not in the file, the process has ended, and  *)
(* the lines still in the accumulation buffer reach neither sink; the      *)
(* bytes appended to the file are always a prefix of those written to      *)
(* stdout, at most one record behind.                                      *)
(***************************************************************************)
C19_FileBehindConsole ==
    output # <<>> =>
        /\ IsPrefix(Flatten(appended), Flatten(stdout))
        /\ Len(stdout) - Len(appended) \in {0, 1}
        /\ \A i \in 1..(Len(appended) - 1) : appended[i] = stdout[i]
        /\ handle = "failed" =>
              /\ exit = "1" /\ pc = "done"
              /\ Len(stdout) = Len(appended) + 1
              /\ stdout[Len(stdout)] = data
              /\ IsSuffix(emitted[Len(emitted)], data)
              /\ Len(emitted) = Len(stdout)
              /\ Flatten(emitted) \o accumulated_data = received

\* the open failed for the second line while a third one waits in the buffer
C19_Witness ==
    /\ handle = "failed"
    /\ exit = "1"
    /\ Len(stdout) = 2
    /\ Len(appended) = 1
    /\ NewlinePositions(accumulated_data) # {}
    /\ Len(emitted) = 2

====
